---- MODULE Spec2Model ----
(***************************************************************************)
(* Owner-line resolution pipeline of src/ownerMapping.js.                  *)
(*                                                                         *)
(* Strings are sequences of one-character strings, so that the string      *)
(* functions of the source (normSpace, isCompany, parsePersonSegment,      *)
(* splitOwnerGroups, normOwnerKey) are computed character by character.    *)
(***************************************************************************)
EXTENDS Integers, Sequences, FiniteSets, TLC

(***************************************************************************)
(* Characters and the JavaScript string primitives the source uses.        *)
(***************************************************************************)
UpperAlpha ==
  <<"A","B","C","D","E","F","G","H","I","J","K","L","M",
    "N","O","P","Q","R","S","T","U","V","W","X","Y","Z">>

LowerAlpha ==
  <<"a","b","c","d","e","f","g","h","i","j","k","l","m",
    "n","o","p","q","r","s","t","u","v","w","x","y","z">>

Digits == {"0","1","2","3","4","5","6","7","8","9"}

\* the characters \s matches, among those the model uses
Whitespace == {" ", "\t"}

UpperSet == {UpperAlpha[i] : i \in 1..26}
LowerSet == {LowerAlpha[i] : i \in 1..26}

\* the lower-case form of each upper-case letter, and the converse
LowerOf == [c \in UpperSet |-> LowerAlpha[CHOOSE i \in 1..26 : UpperAlpha[i] = c]]
UpperOf == [c \in LowerSet |-> UpperAlpha[CHOOSE i \in 1..26 : LowerAlpha[i] = c]]

\* [a-z] and [A-Z]
IsLower(c) == c \in LowerSet
IsUpper(c) == c \in UpperSet

\* \w of a JavaScript regular expression
IsWordChar(c) == IsLower(c) \/ IsUpper(c) \/ c \in Digits \/ c = "_"

LowerChar(c) == IF IsUpper(c) THEN LowerOf[c] ELSE c
UpperChar(c) == IF IsLower(c) THEN UpperOf[c] ELSE c

\* String.prototype.toLowerCase / toUpperCase
toLowerCase(s) == [i \in 1..Len(s) |-> LowerChar(s[i])]
toUpperCase(s) == [i \in 1..Len(s) |-> UpperChar(s[i])]

\* the length of the whitespace run of s that starts at position i
RECURSIVE WsRun(_, _)
WsRun(s, i) ==
  IF i <= Len(s) /\ s[i] \in Whitespace THEN 1 + WsRun(s, i + 1) ELSE 0

\* s.slice(i - 1, j): the characters i..j of s (empty when i > j)
Slice(s, i, j) == IF i > j THEN <<>> ELSE SubSeq(s, i, j)

\* String.prototype.trim
trim(s) ==
  LET keep == {i \in 1..Len(s) : s[i] \notin Whitespace}
  IN IF keep = {} THEN <<>>
     ELSE Slice(s, CHOOSE i \in keep : \A j \in keep : i <= j,
                   CHOOSE i \in keep : \A j \in keep : i >= j)

\* s.includes(c) for a one-character c
includes(s, c) == \E i \in 1..Len(s) : s[i] = c

\* s.replace(/c/g, "") for a one-character c
RemoveChar(s, c) == SelectSeq(s, LAMBDA x : x # c)

\* s.split(c) for a one-character separator c: the pieces between its
\* occurrences, empty pieces included
RECURSIVE split(_, _)
split(s, c) ==
  IF ~includes(s, c) THEN <<s>>
  ELSE LET i == CHOOSE k \in 1..Len(s) : s[k] = c /\ \A j \in 1..(k-1) : s[j] # c
       IN <<Slice(s, 1, i - 1)>> \o split(Slice(s, i + 1, Len(s)), c)

\* arr.filter(Boolean) on an array of strings: the non-empty ones
filterBoolean(arr) == SelectSeq(arr, LAMBDA x : x # <<>>)

\* arr.join(" ")
RECURSIVE join(_)
join(arr) ==
  IF arr = <<>> THEN <<>>
  ELSE IF Len(arr) = 1 THEN arr[1]
  ELSE arr[1] \o <<" ">> \o join(Tail(arr))

\* s.replace(/\s+/g, " "): every maximal run of whitespace becomes one space
CollapseWs(s) ==
  LET keep == {i \in 1..Len(s) :
                 IF s[i] \notin Whitespace \/ i = 1 THEN TRUE
                 ELSE s[i - 1] \notin Whitespace}
      RECURSIVE build(_)
      build(i) ==
        IF i > Len(s) THEN <<>>
        ELSE IF i \notin keep THEN build(i + 1)
        ELSE <<IF s[i] \in Whitespace THEN " " ELSE s[i]>> \o build(i + 1)
  IN build(1)

\* normSpace(s): (s || "").replace(/\s+/g, " ").trim()
normSpace(s) == trim(CollapseWs(s))

(***************************************************************************)
(* isCompany: company detection by keyword.                                *)
(***************************************************************************)
\* the keyword list kw; each entry is spliced unescaped into a regular
\* expression, so a "." in an entry matches any character
kw ==
  {
    <<"i","n","c">>,
    <<"l","l","c">>,
    <<"l",".","l",".","c">>,
    <<"l","t","d">>,
    <<"l","i","m","i","t","e","d">>,
    <<"f","o","u","n","d","a","t","i","o","n">>,
    <<"a","l","l","i","a","n","c","e">>,
    <<"s","o","l","u","t","i","o","n","s">>,
    <<"c","o","r","p">>,
    <<"c","o","r","p","o","r","a","t","i","o","n">>,
    <<"c","o">>,
    <<"c","o","m","p","a","n","y">>,
    <<"s","e","r","v","i","c","e","s">>,
    <<"t","r","u","s","t">>,
    <<"t","r">>,
    <<"l","p">>,
    <<"l","l","p">>,
    <<"p","l","c">>,
    <<"g","r","o","u","p">>,
    <<"p","a","r","t","n","e","r","s">>,
    <<"h","o","l","d","i","n","g","s">>,
    <<"b","a","n","k">>,
    <<"n","a">>,
    <<"a","s","s","o","c","i","a","t","i","o","n">>,
    <<"h","o","a">>,
    <<"a","s","s","n">>,
    <<"m","i","n","i","s","t","r","i","e","s">>,
    <<"c","h","u","r","c","h">>
  }

\* k, read as a regular expression, matches n at position i
KeywordAt(n, i, k) ==
  /\ i + Len(k) - 1 <= Len(n)
  /\ \A j \in 1..Len(k) : k[j] = "." \/ n[i + j - 1] = k[j]

\* new RegExp(`(^|[^a-z])${k}([^a-z]|$)`).test(n)
KeywordTest(n, k) ==
  \E i \in 1..Len(n) :
    /\ KeywordAt(n, i, k)
    /\ (IF i = 1 THEN TRUE ELSE ~IsLower(n[i - 1]))
    /\ (IF i + Len(k) - 1 = Len(n) THEN TRUE ELSE ~IsLower(n[i + Len(k)]))

isCompany(name) ==
  LET n == toLowerCase(name)
  IN \E k \in kw : KeywordTest(n, k)

(***************************************************************************)
(* parsePersonSegment                                                      *)
(***************************************************************************)
\* the value null of priorLastName / priorLast (no string equals it)
Null == <<"null">>

\* /\s+ET\s+AL.?$/i matches s from position i to the end of s: a run of
\* whitespace, ET, a run of whitespace, AL, at most one more character
EtAlMatch(s, i) ==
  LET a == WsRun(s, i)
      e == i + a
      b == WsRun(s, e + 2)
      l == e + 2 + b
  IN /\ a >= 1
     /\ e + 1 <= Len(s)
     /\ LowerChar(s[e]) = "e" /\ LowerChar(s[e + 1]) = "t"
     /\ b >= 1
     /\ l + 1 <= Len(s)
     /\ LowerChar(s[l]) = "a" /\ LowerChar(s[l + 1]) = "l"
     /\ Len(s) - (l + 1) <= 1

\* s.replace(/\s+ET\s+AL.?$/i, ""): the leftmost match, which runs to the
\* end of s, is removed
StripEtAl(s) ==
  LET starts == {i \in 1..Len(s) : EtAlMatch(s, i)}
  IN IF starts = {} THEN s
     ELSE Slice(s, 1, (CHOOSE i \in starts : \A j \in starts : i <= j) - 1)

\* an invalid result that carries a message in place of the reason code
Invalid_FreeText(reason) ==
  [invalid |-> TRUE, reason |-> "could not parse this segment"]

Invalid(reason) == [invalid |-> TRUE, reason |-> reason]

\* the person result with middle_name always set
Person_AlwaysMiddle(first, middle, last) ==
  [type |-> "person", first_name |-> first, last_name |-> last,
   middle_name |-> middle]

\* { type: "person", first_name, last_name }, with middle_name set only
\* when it is a non-empty string (if (middle) person.middle_name = middle)
Person(first, middle, last) ==
  IF middle # <<>>
  THEN [type |-> "person", first_name |-> first, last_name |-> last,
        middle_name |-> middle]
  ELSE [type |-> "person", first_name |-> first, last_name |-> last]

\* tokens[i - 1] || ""
TokenOr(tokens, i) == IF i <= Len(tokens) THEN tokens[i] ELSE <<>>

\* the comma branch without the check for an empty first or last name
ParseComma_NoCheck(s) ==
  LET parts == split(s, ",")
      restTokens == filterBoolean(split(normSpace(parts[2]), " "))
  IN Person(TokenOr(restTokens, 1), join(Slice(restTokens, 2, Len(restTokens))),
            normSpace(parts[1]))

\* the comma branch reading the segment as FIRST MIDDLE, LAST
ParseComma_GivenFirst(s) ==
  LET parts == split(s, ",")
      last == normSpace(parts[2])
      restTokens == filterBoolean(split(normSpace(parts[1]), " "))
      first == TokenOr(restTokens, 1)
      middle == join(Slice(restTokens, 2, Len(restTokens)))
  IN IF first = <<>> \/ last = <<>> THEN Invalid("missing_first_or_last")
     ELSE Person(first, middle, last)

\* the comma branch
ParseComma(s) ==
  LET parts == split(s, ",")
      last == normSpace(parts[1])
      restTokens == filterBoolean(split(normSpace(parts[2]), " "))
      first == TokenOr(restTokens, 1)
      middle == join(Slice(restTokens, 2, Len(restTokens)))
  IN IF first = <<>> \/ last = <<>> THEN Invalid("missing_first_or_last")
     ELSE Person(first, middle, last)

\* the prior last name attached as the first name
ParseInherit_AsFirstName(tokens, priorLastName) ==
  LET first == TokenOr(tokens, 1)
      middle == TokenOr(tokens, 2)
  IN IF first = <<>> THEN Invalid("missing_first_name")
     ELSE Person(priorLastName, middle, first)

\* the inheritance branch asking for two given names
ParseInherit_TwoGivenNames(tokens, priorLastName) ==
  LET first == TokenOr(tokens, 1)
      middle == TokenOr(tokens, 2)
  IN IF first = <<>> \/ middle = <<>> THEN Invalid("missing_first_name")
     ELSE Person(first, middle, priorLastName)

\* the branch that attaches the prior last name to one or two given names
ParseInherit(tokens, priorLastName) ==
  LET first == TokenOr(tokens, 1)
      middle == TokenOr(tokens, 2)
  IN IF first = <<>> THEN Invalid("missing_first_name")
     ELSE Person(first, middle, priorLastName)

\* Heuristic 1: LAST FIRST [MIDDLE]
ParseUpper(tokens) ==
  Person(tokens[2], join(Slice(tokens, 3, Len(tokens))), tokens[1])

\* Heuristic 2 reading the first token as the last name
ParseWestern_SurnameFirst(tokens) ==
  Person(tokens[Len(tokens)], join(Slice(tokens, 2, Len(tokens) - 1)), tokens[1])

\* Heuristic 2 without the interior tokens
ParseWestern_NoMiddle(tokens) ==
  Person(tokens[1], <<>>, tokens[Len(tokens)])

\* Heuristic 2: FIRST [MIDDLE] LAST
ParseWestern(tokens) ==
  LET first == tokens[1]
      last == tokens[Len(tokens)]
      middle == join(Slice(tokens, 2, Len(tokens) - 1))
  IN IF first = <<>> \/ last = <<>> THEN Invalid("missing_first_or_last")
     ELSE Person(first, middle, last)

\* the text of a segment with the periods removed and the ET AL suffix left
SegmentText_KeepEtAl(segment) == trim(RemoveChar(normSpace(segment), "."))

\* the normalized text s of a segment
SegmentText(segment) == trim(StripEtAl(RemoveChar(normSpace(segment), ".")))

\* null taken for a non-empty string
Truthy_NullAsString(v) == v # <<>>

\* a JavaScript value used as a condition: null and "" are falsy
Truthy(v) == v # Null /\ v # <<>>

\* rule 3 tried before rule 2
parsePersonSegment_UpperFirst(segment, priorLastName) ==
  LET s == SegmentText(segment)
      tokens == filterBoolean(split(s, " "))
      isAllUpper == \A i \in 1..Len(tokens) : tokens[i] = toUpperCase(tokens[i])
  IN IF s = <<>> THEN Invalid("empty_segment")
     ELSE IF includes(s, ",") THEN ParseComma(s)
     ELSE IF isAllUpper /\ Len(tokens) >= 2 THEN ParseUpper(tokens)
     ELSE IF Truthy(priorLastName) /\ Len(tokens) <= 2
          THEN ParseInherit(tokens, priorLastName)
     ELSE IF Len(tokens) >= 2 THEN ParseWestern(tokens)
     ELSE Invalid("unparsable_person_segment")

parsePersonSegment(segment, priorLastName) ==
  LET s == SegmentText(segment)
      tokens == filterBoolean(split(s, " "))
      isAllUpper == \A i \in 1..Len(tokens) : tokens[i] = toUpperCase(tokens[i])
  IN IF s = <<>> THEN Invalid("empty_segment")
     ELSE IF includes(s, ",") THEN ParseComma(s)
     ELSE IF Truthy(priorLastName) /\ Len(tokens) <= 2
          THEN ParseInherit(tokens, priorLastName)
     ELSE IF isAllUpper /\ Len(tokens) >= 2 THEN ParseUpper(tokens)
     ELSE IF Len(tokens) >= 2 THEN ParseWestern(tokens)
     ELSE Invalid("unparsable_person_segment")

(***************************************************************************)
(* splitOwnerGroups                                                        *)
(***************************************************************************)
\* and (case-insensitive) at position j, without the word boundaries
AndWordAt_NoBoundary(s, j) ==
  /\ j + 2 <= Len(s)
  /\ LowerChar(s[j]) = "a" /\ LowerChar(s[j + 1]) = "n" /\ LowerChar(s[j + 2]) = "d"

\* \band\b (case-insensitive) matches s at position j
AndWordAt(s, j) ==
  /\ j + 2 <= Len(s)
  /\ LowerChar(s[j]) = "a" /\ LowerChar(s[j + 1]) = "n" /\ LowerChar(s[j + 2]) = "d"
  /\ (IF j = 1 THEN TRUE ELSE ~IsWordChar(s[j - 1]))
  /\ (IF j + 3 > Len(s) THEN TRUE ELSE ~IsWordChar(s[j + 3]))

\* line.replace(/\s*\band\b\s*/gi, " & "), scanning from position i
RECURSIVE ReplaceAnd(_, _)
ReplaceAnd(s, i) ==
  IF i > Len(s) THEN <<>>
  ELSE LET j == i + WsRun(s, i)
       IN IF AndWordAt(s, j)
          THEN <<" ", "&", " ">> \o ReplaceAnd(s, j + 3 + WsRun(s, j + 3))
          ELSE <<s[i]>> \o ReplaceAnd(s, i + 1)

\* s without its trailing whitespace
RECURSIVE TrimEnd(_)
TrimEnd(s) ==
  IF s # <<>> /\ s[Len(s)] \in Whitespace THEN TrimEnd(Slice(s, 1, Len(s) - 1))
  ELSE s

\* s without its leading whitespace
TrimStart(s) == Slice(s, 1 + WsRun(s, 1), Len(s))

\* cleaned.split(/\s*&\s*/): the pieces between ampersands, without the
\* whitespace that touches an ampersand
SplitAmp(s) ==
  LET raw == split(s, "&")
  IN [k \in 1..Len(raw) |->
        LET a == IF k > 1 THEN TrimStart(raw[k]) ELSE raw[k]
        IN IF k < Len(raw) THEN TrimEnd(a) ELSE a]

splitOwnerGroups(line) ==
  LET cleaned == ReplaceAnd(line, 1)
      pieces == SplitAmp(cleaned)
  IN filterBoolean([k \in 1..Len(pieces) |-> normSpace(pieces[k])])

(***************************************************************************)
(* normOwnerKey                                                            *)
(***************************************************************************)
CompanyPrefix == <<"c","o","m","p","a","n","y","|">>
PersonPrefix == <<"p","e","r","s","o","n","|">>

\* owner.f || "" for a field that may be absent
FieldOr(owner, f) == IF f \in DOMAIN owner THEN owner[f] ELSE <<>>

\* normOwnerKey without the toLowerCase calls
normOwnerKey_CaseSensitive(owner) ==
  IF owner.type = "company"
  THEN CompanyPrefix \o normSpace(owner.name)
  ELSE PersonPrefix \o trim(FieldOr(owner, "first_name")) \o <<"|">>
         \o trim(FieldOr(owner, "middle_name")) \o <<"|">>
         \o trim(FieldOr(owner, "last_name"))

\* normOwnerKey of a person without the middle name
normOwnerKey_NoMiddle(owner) ==
  IF owner.type = "company"
  THEN CompanyPrefix \o toLowerCase(normSpace(owner.name))
  ELSE PersonPrefix \o trim(toLowerCase(FieldOr(owner, "first_name"))) \o <<"|">>
         \o trim(toLowerCase(FieldOr(owner, "last_name")))

normOwnerKey(owner) ==
  IF owner.type = "company"
  THEN CompanyPrefix \o toLowerCase(normSpace(owner.name))
  ELSE LET first == trim(toLowerCase(FieldOr(owner, "first_name")))
           middle == trim(toLowerCase(FieldOr(owner, "middle_name")))
           last == trim(toLowerCase(FieldOr(owner, "last_name")))
       IN PersonPrefix \o first \o <<"|">> \o middle \o <<"|">> \o last

(***************************************************************************)
(* Lexical items of the name lines the specifications read.                *)
(***************************************************************************)
\* "SMITH JOHN": an all-uppercase two-token name
UpperPair == <<"S","M","I","T","H"," ","J","O","H","N">>

\* "John Smith": the same name in mixed case and natural order
MixedPair == <<"J","o","h","n"," ","S","m","i","t","h">>

\* "MARY": a single given name
UpperSingle == <<"M","A","R","Y">>

\* ",": a comma on its own
Comma == <<",">>

\* "CO": a company keyword
CompanyWord == <<"C","O">>

\* "&": the owner delimiter
Ampersand == <<"&">>

\* "Smith John": a mixed-case two-token name, surname first
MixedSurnameFirst == <<"S","m","i","t","h"," ","J","o","h","n">>

\* "SMITH, JOHN": the comma form of the same name
CommaPair == <<"S","M","I","T","H",","," ","J","O","H","N">>

(***************************************************************************)
(* main: the loop over the owner name lines of one document.               *)
(*                                                                         *)
(* A document is a sequence of name lines.  extractOwnerNameLines returns  *)
(* each line whitespace-normalized and non-empty, so a line is built here  *)
(* as lexical items joined by single spaces.                               *)
(***************************************************************************)
\* a document holds at most this many lexical items, all lines together
MaxDocItems == 3

\* the lexical items of the name lines of the main specification
NameLexicon ==
  { UpperPair, MixedPair, UpperSingle, Comma, CompanyWord, Ampersand }

VARIABLES
  lexicon,        \* the lexical items the document is written with
  used,           \* lexical items read so far
  pc,             \* "lines": between two lines; "groups": inside a line; "done"
  ownerLines,     \* the lines ownerLines.forEach has been called with so far
  groups,         \* splitOwnerGroups(line) of the current line
  idx,            \* 1-based position in groups of the next segment
  priorLast,      \* the let priorLast of the line callback
  owners,         \* const owners = []
  invalidOwners,  \* const invalidOwners = []
  seen,           \* const seen = new Set()
  hist,           \* history: one record per segment the inner callback handled
  call            \* a call of one function on its own: arguments and result

\* the state of main of the data extraction script (src/unnamed/part_000)
VARIABLES
  step,                 \* the part of main that runs next
  sales,                \* const sales = []: the transfer date of each sale
  ownershipThroughISO,  \* let ownershipThroughISO = null
  persons,              \* persons.length
  companies,            \* companies.length
  mostRecentLink,       \* whether mostRecentLink was found
  written,              \* the files written under data/ so far
  relationships         \* the relationship files written so far, with content

extractVars ==
  <<step, sales, ownershipThroughISO, persons, companies, mostRecentLink,
    written, relationships>>

vars ==
  <<lexicon, used, pc, ownerLines, groups, idx, priorLast, owners,
    invalidOwners, seen, hist, call, extractVars>>

\* no date: the value null of ownershipThroughISO
NoDate == 0

\* no function has been called on its own
NoCall == [fn |-> "none"]

\* the state when main reaches ownerLines.forEach, for a document written
\* with the items of lex
InitWith(lex) ==
  /\ lexicon = lex
  /\ used = 0
  /\ pc = "lines"
  /\ ownerLines = <<>>
  /\ groups = <<>>
  /\ idx = 1
  /\ priorLast = Null
  /\ owners = <<>>
  /\ invalidOwners = <<>>
  /\ seen = {}
  /\ hist = <<>>
  /\ call = NoCall
  /\ step = "input"
  /\ sales = <<>>
  /\ ownershipThroughISO = NoDate
  /\ persons = 0
  /\ companies = 0
  /\ mostRecentLink = FALSE
  /\ written = {}
  /\ relationships = {}

Init == InitWith(NameLexicon)

\* the number of the line being read, and the segment the inner callback is
\* called with next
lineNo == Len(ownerLines)
candidate == normSpace(groups[idx])

\* AddOwner with the new owner put in front of the array (unshift for push)
AddOwner_Unshift(owner) ==
  LET key == normOwnerKey(owner)
  IN IF key # <<>> /\ key \notin seen
     THEN /\ seen' = seen \cup {key}
          /\ owners' = <<owner>> \o owners
     ELSE UNCHANGED <<seen, owners>>

\* AddOwner without seen.add(key)
AddOwner_NoSeen(owner) ==
  LET key == normOwnerKey(owner)
  IN IF key # <<>> /\ key \notin seen
     THEN /\ seen' = seen
          /\ owners' = Append(owners, owner)
     ELSE UNCHANGED <<seen, owners>>

\* if (key && !seen.has(key)) { seen.add(key); owners.push(owner); }
AddOwner(owner) ==
  LET key == normOwnerKey(owner)
  IN IF key # <<>> /\ key \notin seen
     THEN /\ seen' = seen \cup {key}
          /\ owners' = Append(owners, owner)
     ELSE UNCHANGED <<seen, owners>>

\* the inner forEach moves to the next group, or the line callback returns;
\* res is what the callback made of the segment (history only)
Advance(res) ==
  /\ idx' = idx + 1
  /\ pc' = IF idx + 1 > Len(groups) THEN "lines" ELSE "groups"
  /\ hist' = Append(hist, [line |-> lineNo, seg |-> candidate,
                           prior |-> priorLast, res |-> res])
  /\ UNCHANGED <<lexicon, used, ownerLines, groups, call>>
  /\ UNCHANGED extractVars

\* the line callback with priorLast declared outside it, so that it keeps
\* its value from one line to the next
StartLine_KeepPrior ==
  /\ pc = "lines"
  /\ \E k \in 1..(MaxDocItems - used) :
       \E items \in [1..k -> lexicon] :
         /\ ownerLines' = Append(ownerLines, join(items))
         /\ groups' = splitOwnerGroups(join(items))
         /\ used' = used + k
         /\ pc' = IF groups' = <<>> THEN "lines" ELSE "groups"
  /\ idx' = 1
  /\ UNCHANGED <<lexicon, owners, invalidOwners, seen, hist, call, priorLast>>
  /\ UNCHANGED extractVars

\* ownerLines.forEach((line) => { groups = splitOwnerGroups(line);
\* let priorLast = null; ... }) is entered with the next line of the document
StartLine ==
  /\ pc = "lines"
  /\ \E k \in 1..(MaxDocItems - used) :
       \E items \in [1..k -> lexicon] :
         /\ ownerLines' = Append(ownerLines, join(items))
         /\ groups' = splitOwnerGroups(join(items))
         /\ used' = used + k
         /\ pc' = IF groups' = <<>> THEN "lines" ELSE "groups"
  /\ idx' = 1
  /\ priorLast' = Null
  /\ UNCHANGED <<lexicon, owners, invalidOwners, seen, hist, call>>
  /\ UNCHANGED extractVars

\* the company branch leaving the company's name in priorLast
ClassifyCompany_Bleed ==
  /\ pc = "groups"
  /\ candidate # <<>>
  /\ isCompany(candidate)
  /\ AddOwner([type |-> "company", name |-> candidate])
  /\ priorLast' = candidate
  /\ UNCHANGED invalidOwners
  /\ Advance([type |-> "company", name |-> candidate])

\* the inner callback on a segment that isCompany accepts.  (The early
\* return on an empty candidate cannot be taken: splitOwnerGroups returns
\* only non-empty, normalized strings.)
ClassifyCompany ==
  /\ pc = "groups"
  /\ candidate # <<>>
  /\ isCompany(candidate)
  /\ AddOwner([type |-> "company", name |-> candidate])
  /\ priorLast' = Null
  /\ UNCHANGED invalidOwners
  /\ Advance([type |-> "company", name |-> candidate])

\* the invalid branch ending the whole run, as a throw would
PersonInvalid_Throws ==
  /\ pc = "groups"
  /\ candidate # <<>>
  /\ ~isCompany(candidate)
  /\ LET parsed == parsePersonSegment(candidate, priorLast)
     IN /\ "invalid" \in DOMAIN parsed
        /\ invalidOwners' =
             Append(invalidOwners, [raw |-> candidate, reason |-> parsed.reason])
        /\ hist' = Append(hist, [line |-> lineNo, seg |-> candidate,
                                 prior |-> priorLast, res |-> parsed])
  /\ idx' = idx + 1
  /\ pc' = "done"
  /\ UNCHANGED <<lexicon, used, ownerLines, groups, owners, seen, priorLast,
                 call>>
  /\ UNCHANGED extractVars

\* the invalid branch pushing an entry only when no equal entry is there
PersonInvalid_Dedup ==
  /\ pc = "groups"
  /\ candidate # <<>>
  /\ ~isCompany(candidate)
  /\ LET parsed == parsePersonSegment(candidate, priorLast)
         entry == [raw |-> candidate, reason |-> parsed.reason]
     IN /\ "invalid" \in DOMAIN parsed
        /\ invalidOwners' =
             IF \E i \in 1..Len(invalidOwners) : invalidOwners[i] = entry
             THEN invalidOwners ELSE Append(invalidOwners, entry)
        /\ Advance(parsed)
  /\ UNCHANGED <<owners, seen, priorLast>>

\* the invalid branch resetting priorLast
PersonInvalid_Reset ==
  /\ pc = "groups"
  /\ candidate # <<>>
  /\ ~isCompany(candidate)
  /\ LET parsed == parsePersonSegment(candidate, priorLast)
     IN /\ "invalid" \in DOMAIN parsed
        /\ invalidOwners' =
             Append(invalidOwners, [raw |-> candidate, reason |-> parsed.reason])
        /\ Advance(parsed)
  /\ priorLast' = Null
  /\ UNCHANGED <<owners, seen>>

\* the inner callback on a person candidate that parsePersonSegment rejects
PersonInvalid ==
  /\ pc = "groups"
  /\ candidate # <<>>
  /\ ~isCompany(candidate)
  /\ LET parsed == parsePersonSegment(candidate, priorLast)
     IN /\ "invalid" \in DOMAIN parsed
        /\ invalidOwners' =
             Append(invalidOwners, [raw |-> candidate, reason |-> parsed.reason])
        /\ Advance(parsed)
  /\ UNCHANGED <<owners, seen, priorLast>>

\* the person branch without the update of priorLast
PersonResolved_NoCarry ==
  /\ pc = "groups"
  /\ candidate # <<>>
  /\ ~isCompany(candidate)
  /\ LET parsed == parsePersonSegment(candidate, priorLast)
     IN /\ "invalid" \notin DOMAIN parsed
        /\ AddOwner(parsed)
        /\ Advance(parsed)
  /\ UNCHANGED <<invalidOwners, priorLast>>

\* the person branch with the update of priorLast inside the dedup test
PersonResolved_CarryIfNew ==
  /\ pc = "groups"
  /\ candidate # <<>>
  /\ ~isCompany(candidate)
  /\ LET parsed == parsePersonSegment(candidate, priorLast)
     IN /\ "invalid" \notin DOMAIN parsed
        /\ AddOwner(parsed)
        /\ priorLast' =
             IF normOwnerKey(parsed) \notin seen /\ Truthy(parsed.last_name)
             THEN parsed.last_name ELSE priorLast
        /\ Advance(parsed)
  /\ UNCHANGED invalidOwners

\* the inner callback on a person candidate that parsePersonSegment resolves
PersonResolved ==
  /\ pc = "groups"
  /\ candidate # <<>>
  /\ ~isCompany(candidate)
  /\ LET parsed == parsePersonSegment(candidate, priorLast)
     IN /\ "invalid" \notin DOMAIN parsed
        /\ AddOwner(parsed)
        /\ priorLast' =
             IF Truthy(parsed.last_name) THEN parsed.last_name ELSE priorLast
        /\ Advance(parsed)
  /\ UNCHANGED invalidOwners

\* ownerLines is exhausted: main goes on to write owners and invalidOwners
Finish ==
  /\ pc = "lines"
  /\ pc' = "done"
  /\ UNCHANGED <<lexicon, used, ownerLines, groups, idx, priorLast, owners,
                 invalidOwners, seen, hist, call>>
  /\ UNCHANGED extractVars

Next ==
  \/ StartLine
  \/ ClassifyCompany
  \/ PersonInvalid
  \/ PersonResolved
  \/ Finish

Spec == Init /\ [][Next]_vars

(***************************************************************************)
(* The same loop on documents written with other lexical items.            *)
(***************************************************************************)
\* "LALIC JOHN": a person's name that holds no company keyword
SurnameLalic == <<"L","A","L","I","C"," ","J","O","H","N">>

\* the lexical items of documents of companies and persons
CompanyLexicon ==
  { SurnameLalic, UpperSingle, Comma, CompanyWord, Ampersand }

InitCompany == InitWith(CompanyLexicon)

SpecCompany == InitCompany /\ [][Next]_vars

\* the lexical items of documents that name one person in two forms
DupLexicon ==
  { MixedSurnameFirst, CommaPair, UpperSingle, CompanyWord, Ampersand }

InitDup == InitWith(DupLexicon)

SpecDup == InitDup /\ [][Next]_vars

\* "SMITH JOHN &", ", &", "CO &", "MARY &", "ANN LEE DOE &": a segment of
\* each kind, followed by the owner delimiter
UpperPairAmp == <<"S","M","I","T","H"," ","J","O","H","N"," ","&">>
CommaAmp == <<",", " ", "&">>
CompanyAmp == <<"C","O"," ","&">>
UpperSingleAmp == <<"M","A","R","Y"," ","&">>
UpperTripleAmp == <<"A","N","N"," ","L","E","E"," ","D","O","E"," ","&">>

\* the lexical items of documents whose lines hold up to MaxDocItems segments
JointLexicon ==
  { UpperPairAmp, CommaAmp, CompanyAmp, UpperSingleAmp, UpperTripleAmp }

InitJoint == InitWith(JointLexicon)

SpecJoint == InitJoint /\ [][Next]_vars

\* "DOE JANE|" and "|DOE JANE": a name with the character "|" at the end of
\* its second token, and at the start of its first
PipeAfter == <<"D","O","E"," ","J","A","N","E","|">>
PipeBefore == <<"|","D","O","E"," ","J","A","N","E">>

\* the lexical items of documents with "|" in names
PipeLexicon ==
  { PipeAfter, PipeBefore, UpperPair, UpperSingle, CompanyWord }

InitPipe == InitWith(PipeLexicon)

SpecPipe == InitPipe /\ [][Next]_vars

\* ".": a period on its own
Period == <<".">>

\* the lexical items of documents with punctuation-only segments
PunctLexicon ==
  { UpperPair, UpperSingle, Comma, Period, CompanyWord, Ampersand }

InitPunct == InitWith(PunctLexicon)

SpecPunct == InitPunct /\ [][Next]_vars

(***************************************************************************)
(* parsePersonSegment on its own: one call per step, on a segment main can *)
(* pass it (whitespace-normalized, not empty, not a company) and a prior   *)
(* last name main can hold (null, or a resolved last name).                *)
(***************************************************************************)
\* a segment holds at most this many lexical items
MaxSegItems == 3

\* "J.": an initial with its period
Initial == <<"J",".">>

\* "ET": the first word of the ET AL suffix
WordEt == <<"E","T">>

\* "AL": the second word of the ET AL suffix
WordAl == <<"A","L">>

\* "DOE": a last name resolved from an earlier segment
Surname == <<"D","O","E">>

\* the lexical items of the segments
SegmentLexicon ==
  { UpperPair, MixedSurnameFirst, Initial, Period, Comma, CommaPair, WordEt,
    WordAl }

PriorLastNames == { Null, Surname }

pipelineVars ==
  <<lexicon, used, pc, ownerLines, groups, idx, priorLast, owners,
    invalidOwners, seen, hist>>

InitParse == InitWith({})

\* const parsed = parsePersonSegment(candidate, priorLast)
ParseCall(segment, priorLastName) ==
  [fn |-> "parsePersonSegment", segment |-> segment,
   priorLastName |-> priorLastName,
   result |-> parsePersonSegment(segment, priorLastName)]

CallParse ==
  /\ call = NoCall
  /\ \E k \in 1..MaxSegItems :
       \E items \in [1..k -> SegmentLexicon] :
         \E prior \in PriorLastNames :
           /\ ~isCompany(join(items))
           /\ call' = ParseCall(join(items), prior)
  /\ UNCHANGED pipelineVars
  /\ UNCHANGED extractVars

NextParse == CallParse

SpecParse == InitParse /\ [][NextParse]_vars

(***************************************************************************)
(* splitOwnerGroups on its own: one call per step, on a line as            *)
(* extractOwnerNameLines returns it (whitespace-normalized, not empty).    *)
(***************************************************************************)
\* a line holds at most this many lexical items
MaxLineItems == 3

\* "and", "AND", "And": the word delimiter in three letter cases
WordAndLower == <<"a","n","d">>
WordAndUpper == <<"A","N","D">>
WordAndMixed == <<"A","n","d">>

\* "SANDRA": a name with "and" inside it
InnerAnd == <<"S","A","N","D","R","A">>

\* "ANN&BOB": two names with an ampersand and no space between them
Glued == <<"A","N","N","&","B","O","B">>

\* the lexical items of the lines
LineLexicon ==
  { Ampersand, WordAndLower, WordAndUpper, WordAndMixed, InnerAnd,
    UpperSingle, Glued }

InitSplit == InitWith({})

\* const groups = splitOwnerGroups(line)
SplitCall(line) ==
  [fn |-> "splitOwnerGroups", line |-> line, result |-> splitOwnerGroups(line)]

CallSplit ==
  /\ call = NoCall
  /\ \E k \in 1..MaxLineItems :
       \E items \in [1..k -> LineLexicon] :
         call' = SplitCall(join(items))
  /\ UNCHANGED pipelineVars
  /\ UNCHANGED extractVars

NextSplit == CallSplit

SpecSplit == InitSplit /\ [][NextSplit]_vars

(***************************************************************************)
(* main of the data extraction script (src/unnamed/part_000): the sales,   *)
(* the current owners and the relationship files.                          *)
(*                                                                         *)
(* A transfer date is a day number (ISO dates of valid days compare as     *)
(* their timestamps do).  A file is the pair of the literal prefix of its  *)
(* name and its number, "<prefix><number>.json"; the path "./<name>" of a  *)
(* relationship is the pair of the file it names.                          *)
(***************************************************************************)
\* at most this many sales, persons and companies, and the latest day
MaxSales == 2
MaxOwners == 2
MaxDate == 3

DataFile(prefix, n) == <<prefix, n>>

\* const sortedSales = sales.map((s, idx) => ({...s, idx, ts})).sort((a, b) =>
\* b.ts - a.ts): the indices of sales by descending date, in their original
\* order among equal dates (the sort is stable)
RECURSIVE SortDesc(_)
SortDesc(S) ==
  IF S = {} THEN <<>>
  ELSE LET i == CHOOSE x \in S :
                  \A y \in S : sales[y] < sales[x] \/ (sales[y] = sales[x] /\ x <= y)
       IN <<i>> \o SortDesc(S \ {i})

sortedSales == SortDesc(1..Len(sales))

\* sortedSales.find((s) => s.ts <= cutoff), 0 for undefined
Find(cutoff) ==
  LET hits == {k \in 1..Len(sortedSales) : sales[sortedSales[k]] <= cutoff}
  IN IF hits = {} THEN 0
     ELSE sortedSales[CHOOSE k \in hits : \A j \in hits : k <= j]

\* the target of the person branch: sortedSales[0], or the sale found at or
\* before the cutoff
PersonTarget ==
  IF ownershipThroughISO # NoDate /\ Find(ownershipThroughISO) # 0
  THEN Find(ownershipThroughISO)
  ELSE sortedSales[1]

\* the target of the company branch: sortedSales[0]
CompanyTarget == sortedSales[1]

\* input.html and owners/owner_data.json are read: the sales rows with a
\* date and a price, the ownership-current-through date, the current owners
\* by type, the Book/Page link of a sales row
ReadInput ==
  /\ step = "input"
  /\ \E n \in 0..MaxSales : \E s \in [1..n -> 1..MaxDate] : sales' = s
  /\ ownershipThroughISO' \in {NoDate} \cup (1..MaxDate)
  /\ persons' \in 0..MaxOwners
  /\ companies' \in 0..MaxOwners
  /\ mostRecentLink' \in BOOLEAN
  /\ step' = "sales"
  /\ UNCHANGED <<written, relationships, pipelineVars, call>>

\* sales.forEach((s, idx) => writeJSON("data/sales_${idx + 1}.json", s))
WriteSales ==
  /\ step = "sales"
  /\ written' = written \cup {DataFile("sales_", i) : i \in 1..Len(sales)}
  /\ step' = "owners"
  /\ UNCHANGED <<sales, ownershipThroughISO, persons, companies, mostRecentLink,
                 relationships, pipelineVars, call>>

\* persons.forEach((p, i) => writeJSON("data/person_ ${i + 1}.json", p));
\* companies.forEach((c, i) => writeJSON("data/company_${i + 1}.json", c))
WriteOwners ==
  /\ step = "owners"
  /\ written' = written \cup {DataFile("person_ ", i) : i \in 1..persons}
                        \cup {DataFile("company_", i) : i \in 1..companies}
  /\ step' = "link"
  /\ UNCHANGED <<sales, ownershipThroughISO, persons, companies, mostRecentLink,
                 relationships, pipelineVars, call>>

\* the relationship files of one branch: one per owner, from the sale's file
LinkFiles(relPrefix, ownerPrefix, n, target) ==
  { [file |-> DataFile(relPrefix, i),
     to |-> DataFile(ownerPrefix, i),
     from |-> DataFile("sales_", target)] : i \in 1..n }

\* if (persons.length > 0 && sales.length > 0) { ... }
LinkPersons ==
  /\ step = "link"
  /\ persons > 0 /\ Len(sales) > 0
  /\ LET rels == LinkFiles("relationship_sales_history_has_person_", "person_",
                           persons, PersonTarget)
     IN /\ relationships' = relationships \cup rels
        /\ written' = written \cup {r.file : r \in rels}
  /\ step' = "file"
  /\ UNCHANGED <<sales, ownershipThroughISO, persons, companies, mostRecentLink,
                 pipelineVars, call>>

\* else if (companies.length > 0 && sales.length > 0) { ... }
LinkCompanies ==
  /\ step = "link"
  /\ ~(persons > 0 /\ Len(sales) > 0)
  /\ companies > 0 /\ Len(sales) > 0
  /\ LET rels == LinkFiles("relationship_sales_has_company_", "company_",
                           companies, CompanyTarget)
     IN /\ relationships' = relationships \cup rels
        /\ written' = written \cup {r.file : r \in rels}
  /\ step' = "file"
  /\ UNCHANGED <<sales, ownershipThroughISO, persons, companies, mostRecentLink,
                 pipelineVars, call>>

\* neither branch is taken
LinkNone ==
  /\ step = "link"
  /\ ~(persons > 0 /\ Len(sales) > 0)
  /\ ~(companies > 0 /\ Len(sales) > 0)
  /\ step' = "file"
  /\ UNCHANGED <<sales, ownershipThroughISO, persons, companies, mostRecentLink,
                 written, relationships, pipelineVars, call>>

\* if (mostRecentLink) writeJSON("data/file_1.json", file)
WriteFile ==
  /\ step = "file"
  /\ written' = IF mostRecentLink THEN written \cup {DataFile("file_", 1)}
                ELSE written
  /\ step' = "deed"
  /\ UNCHANGED <<sales, ownershipThroughISO, persons, companies, mostRecentLink,
                 relationships, pipelineVars, call>>

\* if (sales.length > 0) { deed_1.json, relationship_sales_history_has_deed,
\* and with mostRecentLink relationship_deed_has_file }
WriteDeed ==
  /\ step = "deed"
  /\ LET hasDeed == [file |-> DataFile("relationship_sales_history_has_deed", 0),
                     to |-> DataFile("sales_", 1),
                     from |-> DataFile("deed_", 1)]
         hasFile == [file |-> DataFile("relationship_deed_has_file", 0),
                     to |-> DataFile("deed_", 1),
                     from |-> DataFile("file_", 1)]
         rels == IF Len(sales) = 0 THEN {}
                 ELSE IF mostRecentLink THEN {hasDeed, hasFile} ELSE {hasDeed}
     IN /\ relationships' = relationships \cup rels
        /\ written' = written \cup {r.file : r \in rels}
                        \cup (IF Len(sales) > 0 THEN {DataFile("deed_", 1)} ELSE {})
  /\ step' = "done"
  /\ UNCHANGED <<sales, ownershipThroughISO, persons, companies, mostRecentLink,
                 pipelineVars, call>>

InitExtract == InitWith({})

NextExtract ==
  \/ ReadInput
  \/ WriteSales
  \/ WriteOwners
  \/ LinkPersons
  \/ LinkCompanies
  \/ LinkNone
  \/ WriteFile
  \/ WriteDeed

SpecExtract == InitExtract /\ [][NextExtract]_vars

(***************************************************************************)
(* Properties.                                                             *)
(***************************************************************************)
\* what the callback made of each segment handled so far, in handling order
HistRes == [k \in 1..Len(hist) |-> hist[k].res]
HistSeg == [k \in 1..Len(hist) |-> hist[k].seg]

IsOwner(r) == "type" \in DOMAIN r
IsPerson(r) == IsOwner(r) /\ r.type = "person"
IsCompanyOwner(r) == IsOwner(r) /\ r.type = "company"
IsInvalid(r) == "invalid" \in DOMAIN r

\* the owners the segments resolved to, duplicates included
ResolvedOwners == SelectSeq(HistRes, IsOwner)

\* same type, and the same fields up to letter case (an absent middle name
\* counting as an empty one)
SameIgnoringCase(a, b) ==
  /\ a.type = b.type
  /\ IF a.type = "company"
     THEN toLowerCase(a.name) = toLowerCase(b.name)
     ELSE /\ toLowerCase(a.first_name) = toLowerCase(b.first_name)
          /\ toLowerCase(FieldOr(a, "middle_name")) = toLowerCase(FieldOr(b, "middle_name"))
          /\ toLowerCase(a.last_name) = toLowerCase(b.last_name)

\* the segments of the lines, line by line and left to right
RECURSIVE AllSegments(_)
AllSegments(lines) ==
  IF lines = <<>> THEN <<>>
  ELSE splitOwnerGroups(Head(lines)) \o AllSegments(Tail(lines))

\* C1 (deduplication): no two entries of owners are equal up to letter case,
\* and of the owners the segments resolved to, each is represented in owners
\* by the first resolved owner that equals it up to letter case.
C1_Dedup ==
  /\ \A i, j \in 1..Len(owners) :
       i < j => ~SameIgnoringCase(owners[i], owners[j])
  /\ \A k \in 1..Len(ResolvedOwners) :
       \E i \in 1..Len(owners), f \in 1..k :
         /\ SameIgnoringCase(owners[i], ResolvedOwners[k])
         /\ owners[i] = ResolvedOwners[f]
         /\ \A g \in 1..(f - 1) :
              ~SameIgnoringCase(ResolvedOwners[g], ResolvedOwners[k])

\* a run has ended in which a resolved owner was discarded that differs in
\* letter case from the entry kept for it
C1_Witness ==
  /\ pc = "done"
  /\ \E k \in 1..Len(ResolvedOwners) :
       \A i \in 1..Len(owners) : owners[i] # ResolvedOwners[k]

\* seq without the entries whose key an earlier entry (or keys) has
RECURSIVE FirstByKey(_, _)
FirstByKey(seq, keys) ==
  IF seq = <<>> THEN <<>>
  ELSE LET key == normOwnerKey(Head(seq))
       IN IF key \in keys THEN FirstByKey(Tail(seq), keys)
          ELSE <<Head(seq)>> \o FirstByKey(Tail(seq), keys \cup {key})

IsPrefix(a, b) == Len(a) <= Len(b) /\ SubSeq(b, 1, Len(a)) = a

C2_State ==
  /\ IsPrefix(HistSeg, AllSegments(ownerLines))
  /\ owners = FirstByKey(ResolvedOwners, {})

\* C2 (order preservation): the segments are handled in document order,
\* owners is the sequence of the owners they resolved to without the
\* non-first occurrences of a key, and a step only ever appends to owners.
C2_Order ==
  /\ []C2_State
  /\ [][IsPrefix(owners, owners')]_vars

\* three lines have resolved to three owners, the third a duplicate of the
\* first, and owners holds the first two in that order
C2_Witness ==
  /\ pc = "done"
  /\ Len(ownerLines) >= 3
  /\ Len(ResolvedOwners) = 3
  /\ Len(owners) = 2
  /\ owners[1] = ResolvedOwners[1] /\ owners[2] = ResolvedOwners[2]

\* the tokens of a segment, as parsePersonSegment splits it
Tokens(seg) == filterBoolean(split(SegmentText(seg), " "))

\* the entries of a sequence
Range(seq) == {seq[i] : i \in 1..Len(seq)}

\* segment k of the history comes right after a company segment of its line
FollowsCompany(k) ==
  /\ k > 1
  /\ hist[k - 1].line = hist[k].line
  /\ IsCompanyOwner(hist[k - 1].res)

\* segment k of the history was routed to the invalid list with this reason
RoutedInvalid(k, reason) ==
  /\ hist[k].res = Invalid(reason)
  /\ [raw |-> hist[k].seg, reason |-> reason] \in Range(invalidOwners)

\* C3 as the specification states it: a comma-free person candidate of at
\* most two tokens right after a company segment is routed to the invalid
\* list as unparsable_person_segment.
C3_AtMostTwoTokens ==
  \A k \in 1..Len(hist) :
    ( /\ FollowsCompany(k)
      /\ ~IsCompanyOwner(hist[k].res)
      /\ ~includes(hist[k].seg, ",")
      /\ Len(Tokens(hist[k].seg)) <= 2 )
    => RoutedInvalid(k, "unparsable_person_segment")

\* C3 (surname inheritance scope), amended: a comma-free person candidate
\* of exactly one token right after a company segment is routed to the
\* invalid list as unparsable_person_segment and resolves to no Person.
C3_OneToken ==
  \A k \in 1..Len(hist) :
    ( /\ FollowsCompany(k)
      /\ ~IsCompanyOwner(hist[k].res)
      /\ ~includes(hist[k].seg, ",")
      /\ Len(Tokens(hist[k].seg)) = 1 )
    => RoutedInvalid(k, "unparsable_person_segment")

\* a run has ended in which a one-token segment came right after a company
C3_Witness ==
  /\ pc = "done"
  /\ \E k \in 1..Len(hist) :
       /\ FollowsCompany(k)
       /\ ~IsCompanyOwner(hist[k].res)
       /\ ~includes(hist[k].seg, ",")
       /\ Len(Tokens(hist[k].seg)) = 1

\* C4 (failure isolation): inside a line the next segment is never skipped
\* (it is not empty); every segment of every line read is handled, in order,
\* before the line callback returns; each yields either an Owner or one invalid entry, so the invalid
\* entries and the resolved owners add up to the segments handled.
C4_Isolation ==
  /\ pc = "groups" =>
       /\ idx <= Len(groups)
       /\ candidate # <<>>
       /\ Len(hist) + (Len(groups) - idx + 1) = Len(AllSegments(ownerLines))
  /\ pc \in {"lines", "done"} => HistSeg = AllSegments(ownerLines)
  /\ \A k \in 1..Len(hist) : IsOwner(hist[k].res) # IsInvalid(hist[k].res)
  /\ Len(invalidOwners) = Len(SelectSeq(HistRes, IsInvalid))
  /\ Len(invalidOwners) + Len(ResolvedOwners) = Len(hist)
  /\ \A k \in 1..Len(ResolvedOwners) :
       normOwnerKey(ResolvedOwners[k]) \in {normOwnerKey(owners[i]) : i \in 1..Len(owners)}

\* a run has ended in which an invalid segment was followed, in its line, by
\* a segment that resolved to an owner
C4_Witness ==
  /\ pc = "done"
  /\ \E k \in 2..Len(hist) :
       /\ hist[k - 1].line = hist[k].line
       /\ IsInvalid(hist[k - 1].res)
       /\ IsOwner(hist[k].res)

\* C5 (owner well-formedness): every Person in owners has a non-empty first
\* and last name, and every Company a non-empty name.
C5_WellFormed ==
  \A i \in 1..Len(owners) :
    IF owners[i].type = "person"
    THEN /\ owners[i].first_name \notin {<<>>, Null}
         /\ owners[i].last_name \notin {<<>>, Null}
    ELSE owners[i].name \notin {<<>>, Null}

\* owners holds a Person made by the all-uppercase rule and one made by
\* surname inheritance
C5_Witness ==
  /\ pc = "done"
  /\ \E k \in 2..Len(hist) :
       /\ hist[k].prior # Null
       /\ IsPerson(hist[k].res) /\ hist[k].res \in Range(owners)
       /\ IsPerson(hist[k - 1].res) /\ hist[k - 1].res \in Range(owners)
       /\ hist[k].res.last_name = hist[k].prior

\* no letter of any token is lower-case
NoLowerCase(tokens) ==
  \A i \in 1..Len(tokens) : \A j \in 1..Len(tokens[i]) : ~IsLower(tokens[i][j])

\* the text of s before its first comma, and after it up to the next one
BeforeComma(s) ==
  Slice(s, 1, (CHOOSE i \in 1..Len(s) : s[i] = "," /\ \A j \in 1..(i - 1) : s[j] # ",") - 1)

\* what the rules of the claim, tried in its order, make of a call
RuleResult(segment, prior) ==
  LET s == SegmentText(segment)
      toks == Tokens(segment)
      n == Len(toks)
  IN IF s = <<>> THEN Invalid("empty_segment")
     ELSE IF includes(s, ",") THEN parsePersonSegment(segment, Null)
     ELSE IF prior # Null /\ n <= 2
          THEN Person(toks[1], TokenOr(toks, 2), prior)
     ELSE IF n >= 2 /\ NoLowerCase(toks)
          THEN Person(toks[2], join(Slice(toks, 3, n)), toks[1])
     ELSE IF n >= 2
          THEN Person(toks[1], join(Slice(toks, 2, n - 1)), toks[n])
     ELSE Invalid("unparsable_person_segment")

\* C6 (rule priority): every call returns what the first applicable rule
\* gives, in the order comma form, surname inheritance, all-uppercase,
\* default order, else unparsable_person_segment; a comma segment gives the
\* result it gives without a prior surname, with the text before the comma
\* as last name.
C6_RulePriority ==
  call.fn = "parsePersonSegment" =>
    /\ call.result = RuleResult(call.segment, call.priorLastName)
    /\ (includes(call.segment, ",") /\ IsPerson(call.result)) =>
         call.result.last_name = normSpace(BeforeComma(SegmentText(call.segment)))

\* a call on an all-uppercase two-token segment with a prior surname, read
\* as given names plus that surname
C6_Witness ==
  /\ call.fn = "parsePersonSegment"
  /\ call.priorLastName = Surname
  /\ call.segment = UpperPair
  /\ call.result = Person(<<"S","M","I","T","H">>, <<"J","O","H","N">>, Surname)

\* keyword k itself stands in n at position i, as a whole word
KeywordWordAt(n, i, k) ==
  /\ i + Len(k) - 1 <= Len(n)
  /\ \A j \in 1..Len(k) : n[i + j - 1] = k[j]
  /\ (IF i = 1 THEN TRUE ELSE ~IsLower(n[i - 1]))
  /\ (IF i + Len(k) - 1 = Len(n) THEN TRUE ELSE ~IsLower(n[i + Len(k)]))

\* the segment contains a company keyword as a whole word
ContainsKeyword(seg) ==
  \E k \in kw : \E i \in 1..Len(seg) : KeywordWordAt(toLowerCase(seg), i, k)

\* C7 (company precedence): a handled segment took the company branch
\* exactly when it contains a company keyword as a whole word, comma or
\* not; it then gave the Company named by the normalized segment, and
\* otherwise it gave what person resolution returns, never a Company.
C7_CompanyPrecedence ==
  \A k \in 1..Len(hist) :
    /\ hist[k].seg # <<>> /\ hist[k].seg = normSpace(hist[k].seg)
    /\ IsOwner(hist[k].res) # IsInvalid(hist[k].res)
    /\ IsCompanyOwner(hist[k].res) = ContainsKeyword(hist[k].seg)
    /\ ContainsKeyword(hist[k].seg) =>
         /\ hist[k].res = [type |-> "company", name |-> hist[k].seg]
         /\ normOwnerKey(hist[k].res) \in seen
    /\ ~ContainsKeyword(hist[k].seg) =>
         hist[k].res = parsePersonSegment(hist[k].seg, hist[k].prior)

\* the invalid entry a rejected segment leaves
InvalidEntry(h) == [raw |-> h.seg, reason |-> h.res.reason]

\* C8 (invalid entries are not deduplicated): invalidOwners holds one entry
\* {raw, reason} for every segment that failed person resolution, raw being
\* the normalized segment, in handling order and equal entries included; the
\* dedup set holds the keys of the resolved owners and nothing else.
C8_InvalidKept ==
  /\ LET failed == SelectSeq(hist, LAMBDA h : IsInvalid(h.res))
     IN invalidOwners = [i \in 1..Len(failed) |-> InvalidEntry(failed[i])]
  /\ \A i \in 1..Len(invalidOwners) :
       invalidOwners[i].raw = normSpace(invalidOwners[i].raw)
  /\ seen = {normOwnerKey(ResolvedOwners[k]) : k \in 1..Len(ResolvedOwners)}

\* a run has ended with two equal entries in invalidOwners
C8_Witness ==
  /\ pc = "done"
  /\ \E i, j \in 1..Len(invalidOwners) : i < j /\ invalidOwners[i] = invalidOwners[j]

\* the document of the lines "Smith John" and "SMITH, JOHN"
DupDocument == <<MixedSurnameFirst, CommaPair>>

\* C9 as the specification states it: the document of the two lines
\* "Smith John" and "SMITH, JOHN" ends with exactly one Person in owners.
C9_OnePerson ==
  (pc = "done" /\ ownerLines = DupDocument) =>
    Len(SelectSeq(owners, IsPerson)) = 1

\* C9 (cross-line duplicate in different name orders), amended: that
\* document ends with two Persons in owners, first Smith last John from the
\* mixed-case line, read in the default order, and first JOHN last SMITH
\* from the comma line; their keys differ and neither is discarded.
C9_TwoPersons ==
  (pc = "done" /\ ownerLines = DupDocument) =>
    /\ owners = << Person(<<"S","m","i","t","h">>, <<>>, <<"J","o","h","n">>),
                   Person(<<"J","O","H","N">>, <<>>, <<"S","M","I","T","H">>) >>
    /\ normOwnerKey(owners[1]) # normOwnerKey(owners[2])
    /\ invalidOwners = <<>>

\* the run on that document has ended
C9_Witness == pc = "done" /\ ownerLines = DupDocument

\* entries k - 1 and k of the history are the two segments of a line made
\* of a comma-free two-token person segment and a comma-free one-token one
JointPair(k) ==
  /\ k >= 2
  /\ hist[k - 1].line = hist[k].line
  /\ splitOwnerGroups(ownerLines[hist[k].line]) = <<hist[k - 1].seg, hist[k].seg>>
  /\ ~isCompany(hist[k - 1].seg) /\ ~isCompany(hist[k].seg)
  /\ ~includes(hist[k - 1].seg, ",") /\ ~includes(hist[k].seg, ",")
  /\ Len(Tokens(hist[k - 1].seg)) = 2
  /\ Len(Tokens(hist[k].seg)) = 1

OneTokenNext ==
  /\ pc = "groups"
  /\ ~isCompany(candidate)
  /\ ~includes(candidate, ",")
  /\ Len(Tokens(candidate)) = 1

\* C11 (single token without a prior surname): the step that handles a
\* comma-free person candidate of exactly one token while the prior surname
\* is null leaves owners and the dedup set as they are and appends
\* {raw: the segment, reason: unparsable_person_segment} to invalidOwners.
C11_SingleToken ==
  [][ (OneTokenNext /\ priorLast = Null) =>
        /\ owners' = owners
        /\ seen' = seen
        /\ invalidOwners' =
             Append(invalidOwners,
                    [raw |-> candidate, reason |-> "unparsable_person_segment"])
    ]_vars

\* a run has ended in which a one-token segment was rejected at the start of
\* a line, and another right after it, the prior surname still null
C11_Witness ==
  /\ pc = "done"
  /\ \E k \in 2..Len(hist) :
       /\ hist[k - 1].line = hist[k].line
       /\ RoutedInvalid(k - 1, "unparsable_person_segment")
       /\ hist[k].prior = Null
       /\ ~includes(hist[k].seg, ",")
       /\ Len(Tokens(hist[k].seg)) = 1
       /\ RoutedInvalid(k, "unparsable_person_segment")
       /\ Len(invalidOwners) >= 2

\* the word "and", in any letter case, stands at position i of s with no
\* letter, digit or underscore next to it
StandaloneAnd(s, i) ==
  /\ i + 2 <= Len(s)
  /\ toLowerCase(SubSeq(s, i, i + 2)) = <<"a","n","d">>
  /\ (i > 1 => ~IsWordChar(s[i - 1]))
  /\ (i + 3 <= Len(s) => ~IsWordChar(s[i + 3]))

\* the length of the delimiter that starts at position i of s, 0 for none
DelimLen(s, i) ==
  IF s[i] = "&" THEN 1 ELSE IF StandaloneAnd(s, i) THEN 3 ELSE 0

\* the pieces of s between delimiters from position i on, cur being the
\* piece collected so far
RECURSIVE Pieces(_, _, _)
Pieces(s, i, cur) ==
  IF i > Len(s) THEN <<cur>>
  ELSE IF DelimLen(s, i) > 0 THEN <<cur>> \o Pieces(s, i + DelimLen(s, i), <<>>)
  ELSE Pieces(s, i + 1, Append(cur, s[i]))

\* the pieces between delimiters, trimmed, the empty ones dropped
TrimmedPieces(s) ==
  LET ps == Pieces(s, 1, <<>>)
  IN SelectSeq([k \in 1..Len(ps) |-> trim(ps[k])], LAMBDA x : x # <<>>)

HasDelimiter(s) == \E i \in 1..Len(s) : DelimLen(s, i) > 0

\* C12 (line splitter): splitOwnerGroups returns the pieces of the line
\* between delimiters (ampersand, or the standalone word "and" in any letter
\* case) in left-to-right order, trimmed and none empty; a line with no
\* delimiter yields the line as its one segment; no segment holds a
\* delimiter; "and" inside a longer word does not split it.
C12_Splitter ==
  call.fn = "splitOwnerGroups" =>
    /\ call.result = TrimmedPieces(call.line)
    /\ \A k \in 1..Len(call.result) :
         /\ call.result[k] # <<>>
         /\ call.result[k] = trim(call.result[k])
         /\ ~HasDelimiter(call.result[k])
    /\ ~HasDelimiter(call.line) => call.result = <<call.line>>
    /\ call.line = InnerAnd => call.result = <<InnerAnd>>

\* a call on the line "& AND SANDRA", with leading and consecutive
\* delimiters and an "and" inside a word, returned one segment
C12_Witness ==
  /\ call.fn = "splitOwnerGroups"
  /\ call.line = join(<<Ampersand, WordAndUpper, InnerAnd>>)
  /\ call.result = <<InnerAnd>>

\* the reason codes of the taxonomy
ReasonCodes ==
  { "empty_segment", "missing_first_or_last", "missing_first_name",
    "unparsable_person_segment" }

\* C13 (reason-code taxonomy): every entry of invalidOwners is a record
\* {raw, reason} whose reason is one of the four reason codes and whose raw
\* is a non-empty string.
C13_ReasonCodes ==
  \A i \in 1..Len(invalidOwners) :
    /\ DOMAIN invalidOwners[i] = {"raw", "reason"}
    /\ invalidOwners[i].reason \in ReasonCodes
    /\ invalidOwners[i].raw \notin {<<>>, Null}

\* a run has ended with entries of three different reasons in invalidOwners
C13_Witness ==
  /\ pc = "done"
  /\ {"empty_segment", "missing_first_or_last", "unparsable_person_segment"}
       \subseteq {invalidOwners[i].reason : i \in 1..Len(invalidOwners)}

\* the fields of a Person without and with a middle name
PersonFields == {"type", "first_name", "last_name"}
PersonFieldsMiddle == PersonFields \cup {"middle_name"}

\* C14 (output shape): every entry of owners is either a record of exactly
\* the fields type = "company" and name, or a record of the fields
\* type = "person", first_name, last_name and, only with a non-empty value,
\* middle_name; no entry carries an invalid or a reason field.
C14_OutputShape ==
  \A i \in 1..Len(owners) :
    LET o == owners[i]
    IN /\ "type" \in DOMAIN o
       /\ o.type \in {"company", "person"}
       /\ o.type = "company" => DOMAIN o = {"type", "name"}
       /\ o.type = "person" =>
            /\ DOMAIN o \in {PersonFields, PersonFieldsMiddle}
            /\ DOMAIN o = PersonFieldsMiddle => o.middle_name \notin {<<>>, Null}
       /\ "invalid" \notin DOMAIN o /\ "reason" \notin DOMAIN o

\* a run has ended with a Person without a middle name and a Person with
\* one in owners
C14_Witness ==
  /\ pc = "done"
  /\ \E i, j \in 1..Len(owners) :
       /\ DOMAIN owners[i] = PersonFields
       /\ DOMAIN owners[j] = PersonFieldsMiddle

\* the text of s after its first comma
AfterComma(s) ==
  Slice(s, 1 + (CHOOSE i \in 1..Len(s) : s[i] = "," /\ \A j \in 1..(i - 1) : s[j] # ","),
        Len(s))

\* the text of s up to its first comma, all of s when it has none
UpToComma(s) == IF includes(s, ",") THEN BeforeComma(s) ELSE s

\* the words of a text, split on spaces
Words(t) == SelectSeq(split(trim(t), " "), LAMBDA x : x # <<>>)

\* the comma form with last name lastText (its words, single-spaced) and
\* given names givenText
CommaForm(lastText, givenText) ==
  LET given == Words(givenText)
  IN IF trim(lastText) = <<>> \/ trim(givenText) = <<>>
     THEN Invalid("missing_first_or_last")
     ELSE Person(given[1], join(Slice(given, 2, Len(given))),
                 join(Words(lastText)))

\* a call of parsePersonSegment on a segment whose text holds a comma
CommaCall ==
  /\ call.fn = "parsePersonSegment"
  /\ includes(SegmentText(call.segment), ",")

\* C15 as the specification states it: the given names of a comma segment
\* are the whole text after the first comma, also when more commas follow.
C15_WholeRest ==
  CommaCall =>
    LET s == SegmentText(call.segment)
    IN call.result = CommaForm(BeforeComma(s), AfterComma(s))

\* C15 (comma form), amended: the last name of a comma segment is the text
\* before the first comma and the given names are the text between the
\* first comma and the next one (up to the end of the segment when there is
\* no other comma), split on spaces: first token = first name, remaining
\* tokens joined by a space = middle name; the segment fails with
\* missing_first_or_last exactly when one of these two texts is empty after
\* trimming.  Text after a second comma is ignored.
C15_FirstTwoParts ==
  CommaCall =>
    LET s == SegmentText(call.segment)
        lastText == BeforeComma(s)
        givenText == UpToComma(AfterComma(s))
    IN /\ call.result = CommaForm(lastText, givenText)
       /\ IsInvalid(call.result) <=>
            (trim(lastText) = <<>> \/ trim(givenText) = <<>>)
       /\ IsInvalid(call.result) => call.result.reason = "missing_first_or_last"
       /\ ~includes(AfterComma(s), ",") =>
            call.result = CommaForm(lastText, AfterComma(s))

\* a call on the two-comma segment "SMITH, JOHN , ET" returned the Person
\* first JOHN, last SMITH
C15_Witness ==
  /\ call.fn = "parsePersonSegment"
  /\ call.segment = join(<<CommaPair, Comma, WordEt>>)
  /\ call.result = Person(<<"J","O","H","N">>, <<>>, <<"S","M","I","T","H">>)

\* entries k and k + 1 of the history are consecutive segments of one line
SameLine(k) == k + 1 <= Len(hist) /\ hist[k].line = hist[k + 1].line

\* the prior surname after entry k of the history, k being the segment
\* handled last and its line not yet left
PriorAfter(k) ==
  IF SameLine(k) THEN hist[k + 1].prior ELSE priorLast

\* entry k of the history has a successor in its line, or is the segment
\* handled last
PriorKnown(k) == SameLine(k) \/ (k = Len(hist) /\ hist[k].line = lineNo)

\* C16 (prior-surname update): the prior surname the next segment of the
\* line is processed with is the last name of the Person the segment before
\* it resolved to, and is the prior surname that segment was processed with
\* when it was routed to the invalid list.
C16_PriorUpdate ==
  \A k \in 1..Len(hist) :
    PriorKnown(k) =>
      /\ IsPerson(hist[k].res) => PriorAfter(k) = hist[k].res.last_name
      /\ IsInvalid(hist[k].res) => PriorAfter(k) = hist[k].prior

\* a run has ended in which a line had a resolved person segment, then an
\* invalid one, then a third segment, processed with the surname of the first
C16_Witness ==
  /\ pc = "done"
  /\ \E k \in 1..Len(hist) :
       /\ SameLine(k) /\ SameLine(k + 1)
       /\ IsPerson(hist[k].res)
       /\ IsInvalid(hist[k + 1].res)
       /\ hist[k + 2].prior = hist[k].res.last_name

\* entry k of the history is the first segment of its line
FirstOfLine(k) == k = 1 \/ hist[k - 1].line # hist[k].line

\* entry j of the history is a Person whose last name entry k, later in the
\* same line with no company segment in between, can inherit
SurnameSource(j, k) ==
  /\ j < k
  /\ hist[j].line = hist[k].line
  /\ IsPerson(hist[j].res)
  /\ hist[j].res.last_name = hist[k].prior
  /\ \A i \in (j + 1)..(k - 1) : ~IsCompanyOwner(hist[i].res)

\* C17 (prior-surname reset): the first segment of every line is processed
\* with a null prior surname; the prior surname is null right after every
\* segment classified as a Company; so every non-null prior surname a
\* segment is processed with is the last name of a Person resolved earlier
\* in the same line with no company segment in between.
C17_PriorReset ==
  /\ (pc = "groups" /\ idx = 1) => priorLast = Null
  /\ \A k \in 1..Len(hist) :
       /\ FirstOfLine(k) => hist[k].prior = Null
       /\ (IsCompanyOwner(hist[k].res) /\ PriorKnown(k)) => PriorAfter(k) = Null
       /\ hist[k].prior # Null => \E j \in 1..(k - 1) : SurnameSource(j, k)

\* a run has ended in which a line ended with a resolved Person and the
\* first segment of the next line, a single token, was rejected
C17_Witness ==
  /\ pc = "done"
  /\ \E k \in 2..Len(hist) :
       /\ FirstOfLine(k)
       /\ IsPerson(hist[k - 1].res)
       /\ Len(Tokens(hist[k].seg)) = 1
       /\ hist[k].prior = Null
       /\ IsInvalid(hist[k].res)

\* entry k of the history was resolved by surname inheritance: a comma-free
\* segment of one or two tokens processed with a non-null prior surname
Inherited(k) ==
  /\ hist[k].prior # Null
  /\ ~IsCompanyOwner(hist[k].res)
  /\ ~includes(SegmentText(hist[k].seg), ",")
  /\ Len(Tokens(hist[k].seg)) \in {1, 2}

\* C18 as the specification states it: a segment is resolved by surname
\* inheritance only when the segment immediately before it in its line
\* resolved to a Person, whose last name it takes.
C18_ImmediatelyBefore ==
  \A k \in 1..Len(hist) :
    Inherited(k) =>
      /\ ~FirstOfLine(k)
      /\ IsPerson(hist[k - 1].res)
      /\ IsPerson(hist[k].res)
      /\ hist[k].res.last_name = hist[k - 1].res.last_name

\* C18 (inheritance source), amended: a segment is resolved by surname
\* inheritance only when an earlier segment of the same line resolved to a
\* Person and every segment between the two was routed to the invalid
\* list; the inherited last name is that Person's last name.  Invalid
\* segments in between do not stop the inheritance.
C18_NearestPerson ==
  \A k \in 1..Len(hist) :
    Inherited(k) =>
      /\ IsPerson(hist[k].res)
      /\ \E j \in 1..(k - 1) :
           /\ hist[j].line = hist[k].line
           /\ IsPerson(hist[j].res)
           /\ \A i \in (j + 1)..(k - 1) : IsInvalid(hist[i].res)
           /\ hist[k].res.last_name = hist[j].res.last_name

\* the run on the line "SMITH JOHN & , & MARY" has ended: the third segment
\* took the last name of the first across the invalid second
C18_Witness ==
  /\ pc = "done"
  /\ Len(hist) = 3
  /\ ownerLines = <<join(<<UpperPairAmp, CommaAmp, UpperSingleAmp>>)>>
  /\ IsInvalid(hist[2].res)
  /\ Inherited(3)
  /\ hist[3].res = Person(<<"M","A","R","Y">>, <<>>, <<"S","M","I","T","H">>)

\* C19 (default Western order on mixed case): a call with a null prior
\* surname on a comma-free segment of at least two tokens, one of them with
\* a lower-case letter, returns the Person whose first name is the first
\* token, whose last name is the last token and whose middle name is the
\* interior tokens joined by a space; so "Smith John" gives first Smith, last
\* John, whereas the all-uppercase "SMITH JOHN" gives first JOHN, last SMITH.
C19_WesternOrder ==
  (call.fn = "parsePersonSegment" /\ call.priorLastName = Null) =>
    LET toks == Tokens(call.segment)
        n == Len(toks)
    IN /\ ( /\ ~includes(SegmentText(call.segment), ",")
            /\ n >= 2
            /\ ~NoLowerCase(toks) )
          => call.result = Person(toks[1], join(Slice(toks, 2, n - 1)), toks[n])
       /\ call.segment = MixedSurnameFirst =>
            call.result = Person(<<"S","m","i","t","h">>, <<>>, <<"J","o","h","n">>)
       /\ call.segment = UpperPair =>
            call.result = Person(<<"J","O","H","N">>, <<>>, <<"S","M","I","T","H">>)

\* a call with a null prior surname on "Smith John AL" returned first
\* Smith, middle John, last AL
C19_Witness ==
  /\ call.fn = "parsePersonSegment"
  /\ call.priorLastName = Null
  /\ call.segment = join(<<MixedSurnameFirst, WordAl>>)
  /\ call.result = Person(<<"S","m","i","t","h">>, <<"J","o","h","n">>, WordAl)

\* " ET AL": the suffix, after a segment's other tokens
EtAlSuffix == <<" ">> \o WordEt \o <<" ">> \o WordAl

\* the segment ends with the suffix, and what stands before it
HasEtAl(seg) ==
  /\ Len(seg) > Len(EtAlSuffix)
  /\ SubSeq(seg, Len(seg) - Len(EtAlSuffix) + 1, Len(seg)) = EtAlSuffix
BeforeEtAl(seg) == SubSeq(seg, 1, Len(seg) - Len(EtAlSuffix))

\* the segment without a suffix ET AL that follows tokens of its own
SuffixFree(seg) == IF HasEtAl(seg) THEN BeforeEtAl(seg) ELSE seg

\* the name fields of a result, as a set of tokens
FieldTokens(r) ==
  IF ~IsPerson(r) THEN {}
  ELSE {r.first_name, r.last_name} \cup Range(Words(FieldOr(r, "middle_name")))

OwnerKeys == {normOwnerKey(owners[i]) : i \in 1..Len(owners)}

\* seen holds the keys of the entries of owners, one key per entry
C22_State ==
  /\ seen = OwnerKeys
  /\ Cardinality(seen) = Len(owners)

\* a step appends one owner and adds its key to seen, or leaves both alone
C22_Step ==
  \/ owners' = owners /\ seen' = seen
  \/ /\ Len(owners') = Len(owners) + 1
     /\ IsPrefix(owners, owners')
     /\ normOwnerKey(owners'[Len(owners')]) \notin seen
     /\ seen' = seen \cup {normOwnerKey(owners'[Len(owners')])}

\* C22 (dedup bookkeeping): in every state seen is the set of the dedup keys
\* of the entries of owners and has as many elements as owners has entries;
\* every step either leaves both as they are or appends one owner and adds
\* its key, which was not in seen, so both only grow and never one without
\* the other.
C22_Bookkeeping ==
  /\ []C22_State
  /\ [][C22_Step]_vars

\* a run has ended with two owners and two keys, a third resolved owner
\* having been discarded as a duplicate
C22_Witness ==
  /\ pc = "done"
  /\ Len(owners) = 2
  /\ Cardinality(seen) = 2
  /\ Len(ResolvedOwners) = 3

\* what a segment resolves to with a given prior surname, whatever owners
\* and seen hold
Resolve(seg, prior) ==
  IF isCompany(seg) THEN [type |-> "company", name |-> seg]
  ELSE parsePersonSegment(seg, prior)

\* the prior surname after the first n segments of a line, computed from
\* these segments alone
RECURSIVE CarryAfter(_, _)
CarryAfter(segs, n) ==
  IF n = 0 THEN Null
  ELSE LET before == CarryAfter(segs, n - 1)
           r == Resolve(segs[n], before)
       IN IF IsCompanyOwner(r) THEN Null
          ELSE IF IsPerson(r) THEN r.last_name
          ELSE before

\* the position of entry k of the history in its line
PosInLine(k) == Cardinality({j \in 1..k : hist[j].line = hist[k].line})

\* entry k of the history resolved to an owner that was discarded as a
\* duplicate of an owner of an earlier line
DuplicateOfEarlierLine(k) ==
  /\ IsOwner(hist[k].res)
  /\ \E j \in 1..(k - 1) :
       /\ hist[j].line < hist[k].line
       /\ IsOwner(hist[j].res)
       /\ normOwnerKey(hist[j].res) = normOwnerKey(hist[k].res)

\* C23 (carry is independent of deduplication): every segment is processed
\* with the prior surname that the earlier segments of its own line give
\* when replayed alone, and resolves to what that prior surname gives; a
\* Person discarded as a duplicate still hands on its last name and a
\* Company discarded as a duplicate still resets the prior surname.
C23_CarryIndependent ==
  \A k \in 1..Len(hist) :
    LET segs == splitOwnerGroups(ownerLines[hist[k].line])
        pos == PosInLine(k)
    IN /\ hist[k].seg = segs[pos]
       /\ hist[k].prior = CarryAfter(segs, pos - 1)
       /\ hist[k].res = Resolve(segs[pos], CarryAfter(segs, pos - 1))
       /\ (DuplicateOfEarlierLine(k) /\ PriorKnown(k)) =>
            PriorAfter(k) = IF IsPerson(hist[k].res) THEN hist[k].res.last_name
                            ELSE Null

\* a run has ended in which a Person discarded as a duplicate of an earlier
\* line was followed by a one-token segment that took its last name
C23_Witness ==
  /\ pc = "done"
  /\ \E k \in 1..Len(hist) :
       /\ DuplicateOfEarlierLine(k)
       /\ IsPerson(hist[k].res)
       /\ SameLine(k)
       /\ Len(Tokens(hist[k + 1].seg)) = 1
       /\ IsPerson(hist[k + 1].res)
       /\ hist[k + 1].res.last_name = hist[k].res.last_name
       /\ Len(owners) = 2

\* C24 (reachable reason codes): no segment fails with missing_first_name;
\* a segment fails with missing_first_or_last only if it contains a comma;
\* a comma-free segment with at least one token fails only with
\* unparsable_person_segment, and only when it has exactly one token and
\* was processed with a null prior surname.
C24_ReachableReasons ==
  \A k \in 1..Len(hist) :
    IsInvalid(hist[k].res) =>
      /\ hist[k].res.reason # "missing_first_name"
      /\ hist[k].res.reason = "missing_first_or_last" => includes(hist[k].seg, ",")
      /\ (~includes(hist[k].seg, ",") /\ Tokens(hist[k].seg) # <<>>) =>
           /\ hist[k].res.reason = "unparsable_person_segment"
           /\ Len(Tokens(hist[k].seg)) = 1
           /\ hist[k].prior = Null
      /\ [raw |-> hist[k].seg, reason |-> hist[k].res.reason] \in Range(invalidOwners)

\* a run has ended with two invalid entries and a Person: a comma segment
\* that failed with missing_first_or_last, a one-token segment that failed
\* with a null prior surname
C24_Witness ==
  /\ pc = "done"
  /\ Len(invalidOwners) = 2
  /\ Len(owners) = 1
  /\ \E j, k \in 1..Len(hist) :
       /\ hist[j].res = Invalid("missing_first_or_last")
       /\ includes(hist[j].seg, ",")
       /\ hist[k].res = Invalid("unparsable_person_segment")
       /\ Len(Tokens(hist[k].seg)) = 1
       /\ hist[k].prior = Null

\* the name fields of an owner, an absent middle name counting as empty
NameFields(o) ==
  IF o.type = "company" THEN <<o.name>>
  ELSE <<o.first_name, FieldOr(o, "middle_name"), o.last_name>>

\* no name field of the owner holds the character "|"
NoPipe(o) == \A i \in 1..Len(NameFields(o)) : ~includes(NameFields(o)[i], "|")

\* C25 as the specification states it: two owners the segments resolved to
\* have equal dedup keys only if they have the same type and the same name
\* fields up to letter case, also when a field holds the character "|".
C25_Injective ==
  \A a, b \in Range(ResolvedOwners) :
    normOwnerKey(a) = normOwnerKey(b) => SameIgnoringCase(a, b)

\* C25 (dedup key injective up to case), amended: two owners the segments
\* resolved to, one of them at least with no "|" in any name field, have
\* equal dedup keys only if they have the same type and the same name
\* fields up to letter case, so such owners are never merged when they
\* differ in a field; two Persons with "|" in a field can have equal keys
\* and different fields, and the second is then discarded.
C25_InjectiveNoPipe ==
  /\ \A a, b \in Range(ResolvedOwners) :
       ((NoPipe(a) \/ NoPipe(b)) /\ normOwnerKey(a) = normOwnerKey(b))
         => SameIgnoringCase(a, b)
  /\ \A a \in Range(ResolvedOwners) :
       NoPipe(a) => \E i \in 1..Len(owners) : SameIgnoringCase(owners[i], a)
  /\ ownerLines = <<PipeAfter, PipeBefore>> =>
       \A i \in 1..Len(owners) : owners[i].last_name # <<"|","D","O","E">>

\* the run on the lines "DOE JANE|" and "|DOE JANE" has ended: the two
\* Persons differ in first and last name and owners holds the first only
C25_Witness ==
  /\ pc = "done"
  /\ ownerLines = <<PipeAfter, PipeBefore>>
  /\ Len(ResolvedOwners) = 2
  /\ ~SameIgnoringCase(ResolvedOwners[1], ResolvedOwners[2])
  /\ owners = <<ResolvedOwners[1]>>

\* the days of the sales that qualify for the owners' link: those at or
\* before the ownership-current-through date, all of them when there is no
\* such date or no such sale
QualifyingDays ==
  LET all == {sales[i] : i \in 1..Len(sales)}
      upTo == {d \in all : d <= ownershipThroughISO}
  IN IF ownershipThroughISO = NoDate \/ upTo = {} THEN all ELSE upTo

\* a relationship file links owner n, of the files named ownerPrefix, to a
\* sale of the most recent qualifying day
LinkedToSale(ownerPrefixes, n) ==
  \E r \in relationships :
    /\ r.to[1] \in ownerPrefixes /\ r.to[2] = n
    /\ r.from[1] = "sales_"
    /\ r.from[2] \in 1..Len(sales)
    /\ sales[r.from[2]] \in QualifyingDays
    /\ \A d \in QualifyingDays : d <= sales[r.from[2]]

\* C21 (owner-to-sale linking): when the script has run and a sale was
\* extracted, every current person and every current company has a
\* relationship file that links it to the most recent sale dated on or
\* before the ownership-current-through date (the most recent sale when
\* there is no such date or no such sale), also when there are both persons
\* and companies.
C21_OwnersLinked ==
  (step = "done" /\ Len(sales) > 0) =>
    /\ \A n \in 1..persons : LinkedToSale({"person_", "person_ "}, n)
    /\ \A n \in 1..companies : LinkedToSale({"company_"}, n)

\* C26 (referential integrity of relationship files): when the script has
\* run, the "to" and the "from" path of every relationship file it wrote
\* name files it wrote under data/.
C26_PathsWritten ==
  step = "done" =>
    \A r \in relationships : r.to \in written /\ r.from \in written

====
